---- MODULE Spec2Model ----
(***************************************************************************)
(* Model of src/testing.py (data_processor): a single-pass batch pipeline  *)
(* read_data -> validate_record -> transform_data -> write_data, driven by *)
(* main().                                                                 *)
(*                                                                         *)
(* Python strings are sequences of one-character strings, so that strip,   *)
(* lower, len, `in`, int() and strptime() are computed and not assumed.    *)
(* A Python value is a record [type, v].  A Python dict is a function      *)
(* from its keys to values.                                                *)
(***************************************************************************)
EXTENDS Integers, Sequences, FiniteSets, TLC

VARIABLES pc, src, header, seen, record, processed_records, record_count,
          valid_record_count, log, sink_calls, sink_data, output, err, ret

vars == <<pc, src, header, seen, record, processed_records, record_count,
          valid_record_count, log, sink_calls, sink_data, output, err, ret>>

(***************************************************************************)
(* Python values                                                           *)
(***************************************************************************)
StrV(s) == [type |-> "str", v |-> s]
IntV(n) == [type |-> "int", v |-> <<n>>]
NoneV == [type |-> "NoneType", v |-> <<>>]
DateV(y, m, d) == [type |-> "datetime", v |-> <<y, m, d>>]

IsStr(x) == x.type = "str"
IsInt(x) == x.type = "int"

\* the result of a call: a returned value, or the exception it raised and the
\* statement of transform_data / validate_record that raised it
Ok(v) == [exc |-> "", at |-> "", val |-> v]
Raise(e, where) == [exc |-> e, at |-> where, val |-> NoneV]

\* dict.get(key, default)
Get(d, key, default) == IF key \in DOMAIN d THEN d[key] ELSE default

\* d[key] = value on a dict
SetItem(d, key, value) == (key :> value) @@ d

(***************************************************************************)
(* Strings                                                                 *)
(***************************************************************************)
DigitChars == <<"0", "1", "2", "3", "4", "5", "6", "7", "8", "9">>
UpperChars == <<"A", "B", "C", "D", "E", "F", "G", "H", "I", "J", "K", "L", "M",
                "N", "O", "P", "Q", "R", "S", "T", "U", "V", "W", "X", "Y", "Z">>
LowerChars == <<"a", "b", "c", "d", "e", "f", "g", "h", "i", "j", "k", "l", "m",
                "n", "o", "p", "q", "r", "s", "t", "u", "v", "w", "x", "y", "z">>

IsDigit(c) == \E i \in 1..10 : DigitChars[i] = c
DigitVal(c) == (CHOOSE i \in 1..10 : DigitChars[i] = c) - 1
IsSpace(c) == c \in {" ", "\t", "\n", "\r"}

LowerChar(c) ==
    IF \E i \in 1..26 : UpperChars[i] = c
    THEN LowerChars[CHOOSE i \in 1..26 : UpperChars[i] = c]
    ELSE c

\* str.lower()
PyLower(s) == [i \in 1..Len(s) |-> LowerChar(s[i])]

RECURSIVE LStrip(_)
LStrip(s) == IF s # <<>> /\ IsSpace(Head(s)) THEN LStrip(Tail(s)) ELSE s

RECURSIVE RStrip(_)
RStrip(s) ==
    IF s # <<>> /\ IsSpace(s[Len(s)]) THEN RStrip(SubSeq(s, 1, Len(s) - 1)) ELSE s

\* str.strip()
PyStrip(s) == RStrip(LStrip(s))

\* c in s
Contains(s, c) == \E i \in 1..Len(s) : s[i] = c

\* the decimal value of a string of digits and underscores
RECURSIVE DecVal(_, _)
DecVal(s, acc) ==
    IF s = <<>> THEN acc
    ELSE IF Head(s) = "_" THEN DecVal(Tail(s), acc)
    ELSE DecVal(Tail(s), acc * 10 + DigitVal(Head(s)))

\* the digit part of an integer literal: digits, single underscores between them
IntDigitsOK(b) ==
    /\ b # <<>>
    /\ \A i \in 1..Len(b) : IsDigit(b[i]) \/ b[i] = "_"
    /\ b[1] # "_"
    /\ b[Len(b)] # "_"
    /\ \A i \in 1..(Len(b) - 1) : ~(b[i] = "_" /\ b[i + 1] = "_")

\* int(x): an int is returned as it is, a str is stripped and read as an
\* optionally signed decimal literal (ValueError otherwise), None is a TypeError
PyInt(x) ==
    IF IsInt(x) THEN Ok(x)
    ELSE IF ~IsStr(x) THEN Raise("TypeError", "")
    ELSE LET t == PyStrip(x.v)
             signed == t # <<>> /\ t[1] \in {"+", "-"}
             body == IF signed THEN Tail(t) ELSE t
             mag == DecVal(body, 0)
         IN IF IntDigitsOK(body)
            THEN Ok(IntV(IF signed /\ t[1] = "-" THEN 0 - mag ELSE mag))
            ELSE Raise("ValueError", "")

(***************************************************************************)
(* datetime.strptime(date_str, '%Y-%m-%d')                                 *)
(***************************************************************************)
IsLeap(y) == (y % 4 = 0 /\ y % 100 # 0) \/ y % 400 = 0

DaysInMonth(y, m) ==
    IF m = 2 THEN (IF IsLeap(y) THEN 29 ELSE 28)
    ELSE IF m \in {4, 6, 9, 11} THEN 30 ELSE 31

\* %m: 1[0-2] | 0[1-9] | [1-9]
MonthTokenOK(t) ==
    \/ Len(t) = 1 /\ IsDigit(t[1]) /\ t[1] # "0"
    \/ Len(t) = 2 /\ t[1] = "0" /\ IsDigit(t[2]) /\ t[2] # "0"
    \/ Len(t) = 2 /\ t[1] = "1" /\ t[2] \in {"0", "1", "2"}

\* %d: 3[01] | [12]\d | 0[1-9] | [1-9] | " "[1-9]
DayTokenOK(t) ==
    \/ Len(t) = 1 /\ IsDigit(t[1]) /\ t[1] # "0"
    \/ Len(t) = 2 /\ t[1] \in {"0", " "} /\ IsDigit(t[2]) /\ t[2] # "0"
    \/ Len(t) = 2 /\ t[1] \in {"1", "2"} /\ IsDigit(t[2])
    \/ Len(t) = 2 /\ t[1] = "3" /\ t[2] \in {"0", "1"}

\* the value of a one- or two-character %m / %d token (a leading blank counts 0)
TokenVal(t) == DecVal(IF t[1] = " " THEN Tail(t) ELSE t, 0)

\* the index of the first "-" of s at or after position i, 0 when there is none
RECURSIVE FindDash(_, _)
FindDash(s, i) ==
    IF i > Len(s) THEN 0
    ELSE IF s[i] = "-" THEN i ELSE FindDash(s, i + 1)

StrpTime(x) ==
    IF ~IsStr(x) THEN Raise("TypeError", "")
    ELSE LET s == x.v
             k == FindDash(s, 6)
             shaped == /\ Len(s) >= 8
                       /\ \A i \in 1..4 : IsDigit(s[i])
                       /\ s[5] = "-"
                       /\ k > 6
                       /\ k < Len(s)
             mtok == SubSeq(s, 6, k - 1)
             dtok == SubSeq(s, k + 1, Len(s))
             y == DecVal(SubSeq(s, 1, 4), 0)
             m == TokenVal(mtok)
             d == TokenVal(dtok)
         IN IF /\ shaped
               /\ MonthTokenOK(mtok)
               /\ DayTokenOK(dtok)
               /\ y >= 1
               /\ d <= DaysInMonth(y, m)
            THEN Ok(DateV(y, m, d))
            ELSE Raise("ValueError", "")

(***************************************************************************)
(* Diagnostics                                                             *)
(***************************************************************************)
LogEntry(level, msg, args) == [level |-> level, msg |-> msg, xargs |-> args]


WarnValidation(field) == LogEntry("WARNING", "Validation failed", <<field>>)
WarnSkip == LogEntry("WARNING", "Skipping invalid record", <<>>)
WarnDate == LogEntry("WARNING", "Invalid date format", <<>>)
InfoStart == LogEntry("INFO", "Starting data processing", <<>>)
InfoBatch(n) == LogEntry("INFO", "Processed records in a batch", <<n>>)
InfoFinished(total, valid) == LogEntry("INFO", "Finished reading", <<total, valid>>)
InfoWritten == LogEntry("INFO", "Processed data written", <<>>)
ErrorNotFound == LogEntry("ERROR", "Input file not found", <<>>)
ErrorReading == LogEntry("ERROR", "Error reading input file", <<>>)
ErrorWriting == LogEntry("ERROR", "Error writing output file", <<>>)
Critical == LogEntry("CRITICAL", "A critical error occurred during processing", <<>>)

(***************************************************************************)
(* Configuration                                                           *)
(***************************************************************************)
\* the batch line of main needs this many accumulated records; files of
\* MaxRecords rows never reach it
BATCH_SIZE == 1000

(***************************************************************************)
(* VALIDATION_RULES: each rule returns a boolean or raises                 *)
(***************************************************************************)
RuleFields == <<"id", "name", "email", "age", "created_at">>

RuleId(x) == Ok(IsInt(x) /\ x.v[1] > 0)

RuleName(x) == Ok(IsStr(x) /\ Len(x.v) > 0)

\* '@' in x and '.' in x: the `in` operator raises TypeError on None
RuleEmail(x) ==
    IF IsStr(x) THEN Ok(Contains(x.v, "@") /\ Contains(x.v, "."))
    ELSE Raise("TypeError", "email")

\* a rule that lets every value through
RuleAge_any(x) == Ok(TRUE)

RuleAge(x) == Ok(IsInt(x) /\ 0 <= x.v[1] /\ x.v[1] <= 120)

RuleCreatedAt(x) == Ok(IsStr(x) /\ Len(x.v) = 10)

Rule(field, x) ==
    CASE field = "id" -> RuleId(x)
      [] field = "name" -> RuleName(x)
      [] field = "email" -> RuleEmail(x)
      [] field = "age" -> RuleAge(x)
      [] field = "created_at" -> RuleCreatedAt(x)

(***************************************************************************)
(* Helper functions                                                        *)
(***************************************************************************)
\* parse_date: only ValueError is caught
parse_date(date_str) ==
    LET r == StrpTime(date_str)
    IN IF r.exc = "ValueError" THEN [res |-> Ok(NoneV), log |-> <<WarnDate>>]
       ELSE IF r.exc # "" THEN [res |-> Raise(r.exc, "created_at_dt"), log |-> <<>>]
       ELSE [res |-> r, log |-> <<>>]

clean_string(text) ==
    IF IsStr(text) THEN StrV(PyLower(PyStrip(text.v))) ELSE text

\* a check that also evaluates the rule of a field the record does not hold
FieldCheck_get(rec, field) ==
    [called |-> TRUE, res |-> Rule(field, Get(rec, field, NoneV))]

\* `field in record and not rule(record[field])`: whether the rule was called,
\* and what it returned or raised (an absent field counts as satisfied)
FieldCheck(rec, field) ==
    IF field \in DOMAIN rec
    THEN [called |-> TRUE, res |-> Rule(field, rec[field])]
    ELSE [called |-> FALSE, res |-> Ok(TRUE)]

\* the for loop of validate_record over the rules still to check
RECURSIVE ValidateLoop(_, _, _, _, _)
ValidateLoop(rec, fields, is_valid, warnings, evaluated) ==
    IF fields = <<>>
    THEN [res |-> Ok(is_valid), log |-> warnings, evaluated |-> evaluated]
    ELSE LET field == Head(fields)
             c == FieldCheck(rec, field)
             ev == IF c.called THEN evaluated \cup {field} ELSE evaluated
         IN IF c.res.exc # ""
            THEN [res |-> c.res, log |-> warnings, evaluated |-> ev]
            ELSE IF ~c.res.val
            THEN ValidateLoop(rec, Tail(fields), FALSE,
                              Append(warnings, WarnValidation(field)), ev)
            ELSE ValidateLoop(rec, Tail(fields), is_valid, warnings, ev)

validate_record(rec) == ValidateLoop(rec, RuleFields, TRUE, <<>>, {})

(***************************************************************************)
(* transform_data                                                          *)
(***************************************************************************)
\* a default that int() cannot read
AgeDefault_empty == StrV(<<>>)

\* the default of transformed.get('age', 0)
AgeDefault == IntV(0)

\* Each statement's result is bound once, as the value of a singleton set's
\* element, so that a later statement reads it instead of evaluating it again.

\* transformed = record.copy() with name and email cleaned (lines 78-80)
CleanedCopy(rec) ==
    CHOOSE t2 \in
        {SetItem(t1, "email", clean_string(Get(t1, "email", StrV(<<>>)))) :
            t1 \in {SetItem(rec, "name", clean_string(Get(rec, "name", StrV(<<>>))))}} :
        TRUE

\* the outcome of lines 81-84, given the results of int() and parse_date():
\* int() raises before parse_date is called
TransformResult(t2, age, dt) ==
    IF age.exc # "" THEN [res |-> Raise(age.exc, "age"), log |-> <<>>]
    ELSE IF dt.res.exc # "" THEN [res |-> dt.res, log |-> dt.log]
    ELSE [res |-> Ok(SetItem(SetItem(t2, "age", age.val),
                             "created_at_dt", dt.res.val)),
          log |-> dt.log]

ConvertFields(t2) ==
    CHOOSE r \in
        {TransformResult(t2, age, dt) :
            age \in {PyInt(Get(t2, "age", AgeDefault))},
            dt \in {parse_date(Get(t2, "created_at", StrV(<<>>)))}} :
        TRUE

transform_data(rec) ==
    CHOOSE r \in {ConvertFields(t2) : t2 \in {CleanedCopy(rec)}} : TRUE

(***************************************************************************)
(* write_data: json.dump(data, f, indent=4, default=str)                   *)
(***************************************************************************)
\* n as w decimal digits, zero padded
RECURSIVE Pad(_, _)
Pad(n, w) == IF w = 0 THEN <<>> ELSE Append(Pad(n \div 10, w - 1), DigitChars[(n % 10) + 1])

\* str(datetime): YYYY-MM-DD 00:00:00
DateStr(x) ==
    Pad(x.v[1], 4) \o <<"-">> \o Pad(x.v[2], 2) \o <<"-">> \o Pad(x.v[3], 2)
        \o <<" ", "0", "0", ":", "0", "0", ":", "0", "0">>

JsonValue(x) == IF x.type = "datetime" THEN StrV(DateStr(x)) ELSE x

JsonDump(data) ==
    [i \in 1..Len(data) |-> [k \in DOMAIN data[i] |-> JsonValue(data[i][k])]]

NoDocument == [state |-> "absent", doc |-> <<>>]
PartialDocument == [state |-> "partial", doc |-> <<>>]
Document(data) == [state |-> "written", doc |-> JsonDump(data)]


(***************************************************************************)
(* Inputs: the rows csv.DictReader can yield.  Every row of a file has the  *)
(* header's keys; a value is a str, or None where the row is shorter than   *)
(* the header.  A header is kept as a set of keys: the column order, which  *)
(* decides only which values a short row leaves None, is not fixed, so any  *)
(* key of a row may hold None.                                              *)
(***************************************************************************)
\* the most rows a modelled file holds
MaxRecords == 3

Fields == {"id", "name", "email", "age", "created_at", "note"}

Absent == [type |-> "absent", v |-> <<>>]

S_date == <<"2", "0", "2", "4", "-", "0", "1", "-", "1", "5">>
S_notadate == <<"n", "o", "t", "-", "a", "-", "d", "a", "t", "e">>
S_feb30 == <<"2", "0", "2", "4", "-", "0", "2", "-", "3", "0">>
S_feb29 == <<"2", "0", "2", "3", "-", "0", "2", "-", "2", "9">>
S_short == <<"2", "0", "2", "4", "-", "1", "-", "5">>
S_year0 == <<"0", "0", "0", "0", "-", "0", "1", "-", "0", "1">>
S_bob == <<" ", "B", "o", "b", " ">>
S_mail == <<"A", "@", "b", ".", "c">>

\* the rows of one file of the run: keys `h`, values from the run's samples
RunChoices ==
    [id : {StrV(<<"1">>)},
     name : {StrV(S_bob), StrV(<<>>)},
     email : {StrV(S_mail), StrV(<<"a", "b">>), NoneV},
     age : {StrV(<<"3", "0">>), StrV(<<"a", "b", "c">>), StrV(<<"4", "0">>)},
     created_at : {StrV(S_date), StrV(S_notadate), NoneV},
     note : {StrV(<<"x">>)}]

RunHeaders ==
    {{"name", "email", "created_at"}, {"name", "email", "age"}, {"id", "name"}, {"note"}}

RowsOf(h) == {[f \in h |-> c[f]] : c \in RunChoices}

\* the raw records the pure functions are applied to: any subset of the fields
FnChoices ==
    [id : {Absent, NoneV, StrV(<<"1">>)},
     name : {Absent, NoneV, StrV(S_bob), StrV(<<>>)},
     email : {Absent, NoneV, StrV(S_mail), StrV(<<"a", "@", "b">>), StrV(<<"a", "b">>)},
     age : {Absent, NoneV, StrV(<<"4", "5">>), StrV(<<" ", "7", " ">>),
            StrV(<<"a", "b", "c">>), StrV(<<"1", "3", "0">>), StrV(<<"-", "5">>),
            StrV(<<>>), StrV(<<"4", "_", "5">>), StrV(<<"+", "3">>)},
     created_at : {Absent, NoneV, StrV(S_date), StrV(S_notadate), StrV(S_feb30),
                   StrV(S_feb29), StrV(S_short), StrV(S_year0), StrV(<<>>)},
     note : {Absent, StrV(<<"x">>)}]

ToDict(c) == [f \in {g \in Fields : c[g] # Absent} |-> c[f]]

RawRecords == {ToDict(c) : c \in FnChoices}

NoRecord == [f \in {} |-> NoneV]

(***************************************************************************)
(* main()                                                                  *)
(***************************************************************************)
Init ==
    /\ pc = "start"
    /\ src = "new"
    /\ header \in RunHeaders
    /\ seen = <<>>
    /\ record = NoRecord
    /\ processed_records = <<>>
    /\ record_count = 0
    /\ valid_record_count = 0
    /\ log = <<>>
    /\ sink_calls = 0
    /\ sink_data = <<>>
    /\ output = NoDocument
    /\ err = ""
    /\ ret = Ok(NoneV)

\* a handler that swallows the error without a diagnostic
ExceptHandler_silent(l) == l

\* except Exception as e: logging.critical(...)
ExceptHandler(l) == Append(l, Critical)

\* an exception path that runs on into the write
AfterException_write == "write"

\* where main() is once the except clause has run: it returns
AfterException == "failed"

\* the valid count after a record that passed or failed validation
CountValid_always(n, is_valid) == n + 1

CountValid(n, is_valid) == IF is_valid THEN n + 1 ELSE n

\* an accumulation that puts the newest record first
Accumulate_front(recs, t) == <<t>> \o recs

\* processed_records.append(transformed_record)
Accumulate(recs, t) == Append(recs, t)

\* a batch line once the accumulated records reach the threshold
BatchLog(l, recs) ==
    IF Len(recs) >= BATCH_SIZE THEN Append(l, InfoBatch(Len(recs))) ELSE l

Start ==
    /\ pc = "start"
    /\ log' = Append(log, InfoStart)
    /\ pc' = "loop"
    /\ UNCHANGED <<src, header, seen, record, processed_records, record_count,
                   valid_record_count, sink_calls, sink_data, output, err, ret>>

\* read_data yields the next row; main counts it
ReadRecord ==
    /\ pc = "loop"
    /\ src \in {"new", "open"}
    /\ record_count < MaxRecords
    /\ \E row \in RowsOf(header) :
         /\ record' = row
         /\ seen' = Append(seen, row)
    /\ src' = "open"
    /\ record_count' = record_count + 1
    /\ pc' = "body"
    /\ UNCHANGED <<header, processed_records, valid_record_count, log,
                   sink_calls, sink_data, output, err, ret>>

\* open() raises FileNotFoundError: logged, re-raised, caught by main
SourceNotFound ==
    /\ pc = "loop"
    /\ src = "new"
    /\ src' = "closed"
    /\ log' = ExceptHandler(Append(log, ErrorNotFound))
    /\ err' = "source"
    /\ pc' = AfterException
    /\ UNCHANGED <<header, seen, record, processed_records, record_count,
                   valid_record_count, sink_calls, sink_data, output, ret>>

\* any other error of open() or of reading a row
ReadError ==
    /\ pc = "loop"
    /\ src \in {"new", "open"}
    /\ src' = "closed"
    /\ log' = ExceptHandler(Append(log, ErrorReading))
    /\ err' = "source"
    /\ pc' = AfterException
    /\ UNCHANGED <<header, seen, record, processed_records, record_count,
                   valid_record_count, sink_calls, sink_data, output, ret>>

\* the loop body for the record just read
HandleRecord ==
    /\ pc = "body"
    /\ \E v \in {validate_record(record)} :
         /\ ret' = v.res
         /\ IF v.res.exc # ""
            THEN /\ log' = ExceptHandler(log \o v.log)
                 /\ err' = "validator"
                 /\ pc' = AfterException
                 /\ UNCHANGED <<processed_records, valid_record_count>>
            ELSE IF ~v.res.val
            THEN /\ log' = BatchLog(Append(log \o v.log, WarnSkip), processed_records)
                 /\ valid_record_count' = CountValid(valid_record_count, FALSE)
                 /\ pc' = "loop"
                 /\ UNCHANGED <<processed_records, err>>
            ELSE \E t \in {transform_data(record)} :
                 IF t.res.exc # ""
                 THEN /\ log' = ExceptHandler(log \o v.log \o t.log)
                      /\ err' = "transformer"
                      /\ pc' = AfterException
                      /\ UNCHANGED <<processed_records, valid_record_count>>
                 ELSE /\ processed_records' = Accumulate(processed_records, t.res.val)
                      /\ valid_record_count' = CountValid(valid_record_count, TRUE)
                      /\ log' = BatchLog(log \o v.log \o t.log, processed_records')
                      /\ pc' = "loop"
                      /\ UNCHANGED err
    /\ UNCHANGED <<src, header, seen, record, record_count, sink_calls,
                   sink_data, output>>

\* the source is exhausted: the summary is logged and the sink is called next
Exhausted ==
    /\ pc = "loop"
    /\ src \in {"new", "open"}
    /\ src' = "closed"
    /\ log' = Append(log, InfoFinished(record_count, valid_record_count))
    /\ pc' = "write"
    /\ UNCHANGED <<header, seen, record, processed_records, record_count,
                   valid_record_count, sink_calls, sink_data, output, err, ret>>

WriteOk ==
    /\ pc = "write"
    /\ sink_calls' = sink_calls + 1
    /\ sink_data' = processed_records
    /\ output' = Document(processed_records)
    /\ log' = Append(log, InfoWritten)
    /\ pc' = "done"
    /\ UNCHANGED <<src, header, seen, record, processed_records, record_count,
                   valid_record_count, err, ret>>

\* open() or json.dump fails: nothing, or a truncated document, is on disk
WriteFail ==
    /\ pc = "write"
    /\ sink_calls' = sink_calls + 1
    /\ sink_data' = processed_records
    /\ output' \in {NoDocument, PartialDocument}
    /\ log' = ExceptHandler(Append(log, ErrorWriting))
    /\ err' = "sink"
    /\ pc' = AfterException
    /\ UNCHANGED <<src, header, seen, record, processed_records, record_count,
                   valid_record_count, ret>>

Next ==
    \/ Start
    \/ ReadRecord
    \/ SourceNotFound
    \/ ReadError
    \/ HandleRecord
    \/ Exhausted
    \/ WriteOk
    \/ WriteFail

Spec == Init /\ [][Next]_vars

\* main() is one sequential call: it keeps running until it returns
LiveSpec == Spec /\ WF_vars(Next)

(***************************************************************************)
(* The pure functions applied to one raw record                            *)
(***************************************************************************)
FnInit ==
    /\ pc = "call"
    /\ src = "new"
    /\ header = {}
    /\ seen = <<>>
    /\ record \in RawRecords
    /\ processed_records = <<>>
    /\ record_count = 0
    /\ valid_record_count = 0
    /\ log = <<>>
    /\ sink_calls = 0
    /\ sink_data = <<>>
    /\ output = NoDocument
    /\ err = ""
    /\ ret = Ok(NoneV)

CallValidate ==
    /\ pc = "call"
    /\ LET v == validate_record(record)
       IN /\ ret' = v.res
          /\ log' = v.log
    /\ pc' = "validated"
    /\ UNCHANGED <<src, header, seen, record, processed_records, record_count,
                   valid_record_count, sink_calls, sink_data, output, err>>

CallTransform ==
    /\ pc = "call"
    /\ LET t == transform_data(record)
       IN /\ ret' = t.res
          /\ log' = t.log
    /\ pc' = "transformed"
    /\ UNCHANGED <<src, header, seen, record, processed_records, record_count,
                   valid_record_count, sink_calls, sink_data, output, err>>

FnNext == CallValidate \/ CallTransform

FnSpec == FnInit /\ [][FnNext]_vars


(***************************************************************************)
(* Properties                                                              *)
(***************************************************************************)
\* how many diagnostics of the log carry the message `msg`
CountMsg(l, msg) == Cardinality({i \in 1..Len(l) : l[i].msg = msg})

CountLevel(l, level) == Cardinality({i \in 1..Len(l) : l[i].level = level})

\* the records discarded as invalid so far: one "Skipping" warning each
Discarded == CountMsg(log, "Skipping invalid record")

\* no record is half handled: main is between records, finalizing, done, or
\* failed outside the loop body
BetweenRecords ==
    \/ pc \in {"loop", "write", "done"}
    \/ pc = "failed" /\ err \in {"source", "sink"}

\* C1: after each record has been fully handled the total count equals the
\* valid count plus the number of records discarded as invalid, and the valid
\* count never exceeds the total count.
C1_Accounting ==
    /\ valid_record_count <= record_count
    /\ BetweenRecords => record_count = valid_record_count + Discarded

C1_Witness ==
    /\ pc = "loop"
    /\ record_count = 3
    /\ valid_record_count = 2
    /\ Discarded = 1

\* C2: the sink is invoked at most once, and only after the source was
\* exhausted with no error from the source, the validator or the transformer;
\* a run that failed before exhaustion never invoked the sink and left no
\* output document.
C2_SinkOnlyAfterFullPass ==
    /\ sink_calls <= 1
    /\ sink_calls = 1 =>
         /\ src = "closed"
         /\ err \in {"", "sink"}
         /\ CountMsg(log, "Finished reading") = 1
    /\ (pc = "failed" /\ err \in {"source", "validator", "transformer"}) =>
         /\ sink_calls = 0
         /\ output = NoDocument

C2_Witness ==
    /\ pc = "failed"
    /\ err = "source"
    /\ record_count = 2
    /\ Len(processed_records) > 0
    /\ sink_calls = 0
    /\ output = NoDocument

\* a field the record holds whose rule does not return true for its value
HasFailingField(rec) ==
    \E i \in 1..Len(RuleFields) :
        /\ RuleFields[i] \in DOMAIN rec
        /\ LET r == Rule(RuleFields[i], rec[RuleFields[i]])
           IN r.exc # "" \/ ~r.val

\* C3: field-level problems never abort the run: once main has handled a
\* record holding a field that does not satisfy its rule, validate_record has
\* returned false without raising and the run has not failed in the validator.
C3_FieldProblemsNeverAbort ==
    (seen # <<>> /\ pc # "body" /\ HasFailingField(seen[Len(seen)])) =>
        /\ ret.exc = ""
        /\ ret.val = FALSE
        /\ err # "validator"

Terminated == pc \in {"done", "failed"}

C4_TerminalStates ==
    /\ (pc = "failed") <=> (err # "")
    /\ CountLevel(log, "CRITICAL") = (IF pc = "failed" THEN 1 ELSE 0)
    /\ pc = "done" =>
         /\ src = "closed"
         /\ CountMsg(log, "Finished reading") = 1
         /\ sink_calls = 1
         /\ output = Document(processed_records)
         /\ log[Len(log)] = InfoWritten

\* C4: every run ends in exactly one of Done (source exhausted, summary
\* logged, sink write succeeded, success logged) or Failed; an error logs
\* exactly one critical diagnostic, no further record is processed, and main
\* returns (nothing changes once it has terminated).
C4_TerminatesDoneOrFailed ==
    /\ []C4_TerminalStates
    /\ [][Terminated => UNCHANGED vars]_vars
    /\ <>Terminated

C4_Witness ==
    /\ pc = "failed"
    /\ err = "sink"
    /\ record_count = 2
    /\ output = PartialDocument
    /\ CountLevel(log, "CRITICAL") = 1

\* C5: a field absent from the record is never evaluated and cannot make the
\* record invalid: validate_record returns false only when a field the record
\* holds fails its rule, and a record with none of the ruled fields is valid.
C5_AbsenceIsNotFailure ==
    pc = "validated" =>
        /\ validate_record(record).evaluated \subseteq DOMAIN record
        /\ (ret.exc = "" /\ ~ret.val) =>
             \E f \in DOMAIN record :
                 /\ \E i \in 1..Len(RuleFields) : RuleFields[i] = f
                 /\ Rule(f, record[f]).exc = ""
                 /\ ~Rule(f, record[f]).val
        /\ (\A i \in 1..Len(RuleFields) : RuleFields[i] \notin DOMAIN record) =>
             (ret.exc = "" /\ ret.val)

C5_Witness ==
    /\ pc = "validated"
    /\ DOMAIN record = {"name", "created_at"}
    /\ ret.exc = ""
    /\ ret.val

\* the records main has finished handling
Handled == IF pc = "body" THEN SubSeq(seen, 1, Len(seen) - 1) ELSE seen

Passed(rec) == LET r == validate_record(rec).res IN r.exc = "" /\ r.val

\* the transforms of the records of s that pass validation, in order
RECURSIVE TransformsOfValid(_)
TransformsOfValid(s) ==
    IF s = <<>> THEN <<>>
    ELSE IF Passed(Head(s))
    THEN <<transform_data(Head(s)).res.val>> \o TransformsOfValid(Tail(s))
    ELSE TransformsOfValid(Tail(s))

\* C6: the accumulated sequence is exactly the transform of each handled
\* record that passed validation, in source order; its length is the valid
\* count; the sequence handed to the sink is that sequence for the whole input.
C6_AccumulatedInOrder ==
    /\ processed_records = TransformsOfValid(Handled)
    /\ Len(processed_records) = valid_record_count
    /\ sink_calls >= 1 => sink_data = TransformsOfValid(seen)

C6_Witness ==
    /\ pc = "done"
    /\ record_count = 3
    /\ Len(sink_data) = 2
    /\ sink_data[1] # sink_data[2]
    /\ Passed(seen[1])
    /\ ~Passed(seen[2])

\* the documented rule of a field, read on the raw string of the source
DocumentedRuleOK(field, x) ==
    CASE field = "id" -> PyInt(x).exc = "" /\ PyInt(x).val.v[1] > 0
      [] field = "name" -> IsStr(x) /\ Len(x.v) > 0
      [] field = "email" -> IsStr(x) /\ Contains(x.v, "@") /\ Contains(x.v, ".")
      [] field = "age" ->
           PyInt(x).exc = "" /\ PyInt(x).val.v[1] >= 0 /\ PyInt(x).val.v[1] <= 120
      [] field = "created_at" -> IsStr(x) /\ Len(x.v) = 10
      [] OTHER -> TRUE

MeetsDocumentedRules(rec) == \A f \in DOMAIN rec : DocumentedRuleOK(f, rec[f])

\* three records, #2 with age="abc", #1 and #3 satisfying every documented rule
EndToEndScenario ==
    /\ Len(seen) = 3
    /\ "age" \in DOMAIN seen[2]
    /\ seen[2]["age"] = StrV(<<"a", "b", "c">>)
    /\ MeetsDocumentedRules(seen[1])
    /\ MeetsDocumentedRules(seen[3])

\* C7: for three raw records where #2 has age="abc" and #1 and #3 pass, the
\* run reports total=3 and valid=2 and the output document holds exactly the
\* two entries of #1 and #3.
C7_EndToEnd ==
    (pc = "done" /\ EndToEndScenario) =>
        /\ record_count = 3
        /\ valid_record_count = 2
        /\ Len(output.doc) = 2

AgeParses(rec) == "age" \in DOMAIN rec /\ PyInt(rec["age"]).exc = ""

\* C8 as stated: the age statement of transform_data never raises; it gives the
\* integer value of a raw string that parses and 0 when age is absent or
\* unparsable.
C8_AgeDefaultsWhenUnparsable ==
    pc = "transformed" =>
        /\ ret.at # "age"
        /\ ret.exc = "" =>
             ret.val["age"] = (IF AgeParses(record) THEN PyInt(record["age"]).val
                               ELSE IntV(0))

\* C8 amended: transform_data gives the integer value of a raw age that parses
\* (age="45" gives 45) and 0 when age is absent, without raising in the age
\* statement; a raw age that is present and unparsable makes it raise
\* (ValueError for a string, TypeError for a missing value) instead.
C8_AgeParsedOrRaises ==
    pc = "transformed" =>
        /\ "age" \notin DOMAIN record =>
             /\ ret.at # "age"
             /\ ret.exc = "" => ret.val["age"] = IntV(0)
        /\ AgeParses(record) =>
             /\ ret.at # "age"
             /\ ret.exc = "" => ret.val["age"] = PyInt(record["age"]).val
        /\ ("age" \in DOMAIN record /\ record["age"] = StrV(<<"4", "5">>)
              /\ ret.exc = "") => ret.val["age"] = IntV(45)
        /\ ("age" \in DOMAIN record /\ ~AgeParses(record)) =>
             /\ ret.at = "age"
             /\ ret.exc = (IF IsStr(record["age"]) THEN "ValueError" ELSE "TypeError")

C8_Witness ==
    /\ pc = "transformed"
    /\ "age" \in DOMAIN record
    /\ record["age"] = StrV(<<"a", "b", "c">>)
    /\ ret.exc = "ValueError"
    /\ ret.at = "age"

DateParses(rec) == "created_at" \in DOMAIN rec /\ StrpTime(rec["created_at"]).exc = ""

\* C9: whenever transform_data gets past its age statement, created_at_dt is
\* the parsed date when created_at is a valid date string ("2024-01-15" gives
\* January 15, 2024) and otherwise the unavailable marker, without raising and
\* with exactly one warning.
C9_DateOrMarker ==
    (pc = "transformed" /\ ret.at # "age") =>
        /\ ret.exc = ""
        /\ IF DateParses(record)
           THEN /\ ret.val["created_at_dt"] = StrpTime(record["created_at"]).val
                /\ log = <<>>
           ELSE /\ ret.val["created_at_dt"] = NoneV
                /\ log = <<WarnDate>>
        /\ ("created_at" \in DOMAIN record /\ record["created_at"] = StrV(S_date)) =>
             ret.val["created_at_dt"] = DateV(2024, 1, 15)

\* C10: for every record on which validate_record returns true,
\* transform_data returns a normalized record without raising.
C10_ValidatedTransforms ==
    (pc = "transformed" /\ Passed(record)) =>
        /\ ret.exc = ""
        /\ ret.val["age"] = IntV(0)
        /\ "created_at_dt" \in DOMAIN ret.val

C10_Witness ==
    /\ pc = "transformed"
    /\ Passed(record)
    /\ DOMAIN record = {"name", "email", "created_at", "note"}
    /\ record["created_at"] = StrV(S_notadate)
    /\ ret.exc = ""

\* within main() the transformer is never what fails the run
TransformerNeverFailsRun == err # "transformer"

====
